---- MODULE Spec2Model ----
(***************************************************************************)
(* froglol: a bang-command redirector.  The model covers the bookmark and  *)
(* alias tables (app/models.py), the CRUD handlers (app/routes/            *)
(* bookmarks.py), the redirect service (app/services/redirect_service.py)  *)
(* and the fuzzy matcher (app/services/fuzzy_matcher.py).                  *)
(*                                                                         *)
(* Strings are sequences of one-character strings, so that lower(),        *)
(* strip(), split(), replace() and quote_plus() act on characters.         *)
(* Optional values are wrapped: <<>> is None and <<x>> is the value x.     *)
(***************************************************************************)
EXTENDS Integers, Sequences, FiniteSets, TLC

VARIABLES
    bookmarks,   \* the bookmarks table: id -> [name, url, description, use_count]
    aliases,     \* the aliases table: id -> [alias, bookmark_id]
    last,        \* the request handled last, the response it produced and,
                 \* for an observed request, the tables as they were before it
    fz,          \* the last direct call of FuzzyMatcher.find_similar_commands
    pc,          \* per worker: its position inside process_redirect
    loaded,      \* per worker: the Bookmark object its session has loaded
    served,      \* the number of calls the concurrent workers have returned
    matcher,     \* a FuzzyMatcher shared by callers: _commands_cache and
                 \* _cache_timestamp
    caller,      \* per caller of the shared matcher: its frame inside
                 \* _get_all_commands and what its last call returned
    clock        \* time.time(), in seconds

cacheVars == <<matcher, caller, clock>>

vars == <<bookmarks, aliases, last, fz, pc, loaded, served, cacheVars>>

-----------------------------------------------------------------------------
(* Bounds of the model *)

MaxBookmarks == 2
MaxAliases == 1
MaxUse == 1
NumWorkers == 2
MaxHits == 3
MaxQueryLen == 6
MaxTemplateLen == 5
MaxArgsLen == 2
MaxTicks == 1
MaxCalls == 3

-----------------------------------------------------------------------------
(* Optional values *)

None == <<>>
Some(x) == <<x>>

-----------------------------------------------------------------------------
(* Python str methods used by the code *)

IsSpace(c) == c = " "

LowerChar(c) ==
    CASE c = "A" -> "a"
      [] c = "B" -> "b"
      [] OTHER -> c

\* str.lower()
lower(s) == [i \in 1..Len(s) |-> LowerChar(s[i])]

RECURSIVE lstrip(_)
lstrip(s) ==
    IF s = <<>> THEN <<>>
    ELSE IF IsSpace(Head(s)) THEN lstrip(Tail(s))
    ELSE s

RECURSIVE rstrip(_)
rstrip(s) ==
    IF s = <<>> THEN <<>>
    ELSE IF IsSpace(s[Len(s)]) THEN rstrip(SubSeq(s, 1, Len(s) - 1))
    ELSE s

\* str.strip()
strip(s) == rstrip(lstrip(s))

\* the index of the first whitespace character of s, or Len(s) + 1
RECURSIVE FirstSpace(_, _)
FirstSpace(s, i) ==
    IF i > Len(s) THEN i
    ELSE IF IsSpace(s[i]) THEN i
    ELSE FirstSpace(s, i + 1)

\* str.split(maxsplit=1): the words before and after the first whitespace run
split1(s) ==
    LET t == lstrip(s)
        k == FirstSpace(t, 1)
        rest == lstrip(SubSeq(t, k, Len(t)))
    IN  IF t = <<>> THEN <<>>
        ELSE IF rest = <<>> THEN <<SubSeq(t, 1, k - 1)>>
        ELSE <<SubSeq(t, 1, k - 1), rest>>

\* str.replace("%s", r): left to right, non-overlapping
RECURSIVE replace_marker(_, _)
replace_marker(t, r) ==
    IF t = <<>> THEN <<>>
    ELSE IF Len(t) >= 2 /\ t[1] = "%" /\ t[2] = "s"
         THEN r \o replace_marker(SubSeq(t, 3, Len(t)), r)
    ELSE <<Head(t)>> \o replace_marker(Tail(t), r)

\* urllib.parse.quote_plus on one character: a space becomes +, a reserved
\* character its percent-encoding, a letter stays
QuoteChar(c) ==
    CASE c = " " -> <<"+">>
      [] c = "%" -> <<"%", "2", "5">>
      [] c = "&" -> <<"%", "2", "6">>
      [] OTHER -> <<c>>

RECURSIVE quote_plus(_)
quote_plus(s) ==
    IF s = <<>> THEN <<>>
    ELSE QuoteChar(Head(s)) \o quote_plus(Tail(s))

-----------------------------------------------------------------------------
(* app/routes/bookmarks.py and app/services/redirect_service.py: pure parts *)

\* a normalization that trims and keeps the letter case
normalize_command_keeping_case(command) == strip(command)

normalize_command(command) == strip(lower(command))

\* a parse that lower-cases the whole query
parse_query_lowering_args(query) ==
    LET parts == split1(strip(query))
    IN  [command |-> IF parts # <<>> THEN lower(parts[1]) ELSE <<>>,
         args |-> IF Len(parts) > 1 THEN lower(parts[2]) ELSE <<>>]

parse_query(query) ==
    LET parts == split1(strip(query))
    IN  [command |-> IF parts # <<>> THEN lower(parts[1]) ELSE <<>>,
         args |-> IF Len(parts) > 1 THEN parts[2] ELSE <<>>]

\* str.replace("%s", r, 1): the first marker only
RECURSIVE replace_first_marker(_, _)
replace_first_marker(t, r) ==
    IF t = <<>> THEN <<>>
    ELSE IF Len(t) >= 2 /\ t[1] = "%" /\ t[2] = "s"
         THEN r \o SubSeq(t, 3, Len(t))
    ELSE <<Head(t)>> \o replace_first_marker(Tail(t), r)

\* a substitution that fills in the first marker only
substitute_args_first_marker(url_template, args) ==
    IF args = <<>> THEN replace_first_marker(url_template, <<>>)
    ELSE replace_first_marker(url_template, quote_plus(args))

\* a substitution that leaves the template as it is when args is empty
substitute_args_unfilled_when_empty(url_template, args) ==
    IF args = <<>> THEN url_template
    ELSE replace_marker(url_template, quote_plus(args))

substitute_args(url_template, args) ==
    IF args = <<>> THEN replace_marker(url_template, <<>>)
    ELSE replace_marker(url_template, quote_plus(args))

-----------------------------------------------------------------------------
(* The tables (app/models.py) *)

Max(S) == CHOOSE x \in S : \A y \in S : y <= x
Min(S) == CHOOSE x \in S : \A y \in S : x <= y

\* the elements of a finite set of integers in ascending order
RECURSIVE Ascending(_)
Ascending(S) ==
    IF S = {} THEN <<>>
    ELSE <<Min(S)>> \o Ascending(S \ {Min(S)})

\* the integer primary key given to a new row
NextId(table) == IF DOMAIN table = {} THEN 1 ELSE Max(DOMAIN table) + 1

\* the column defaults: use_count 0, created_at and updated_at the time of
\* the INSERT
Bookmark(name, url, description) ==
    [name |-> name, url |-> url, description |-> description, use_count |-> 0,
     created_at |-> clock, updated_at |-> clock]

Alias(alias, bookmark_id) ==
    [alias |-> alias, bookmark_id |-> bookmark_id, created_at |-> clock]

\* updated_at, onupdate: an UPDATE of the row, flushed when the object has
\* changed, sets it to the time of the UPDATE
Touched(old, new) ==
    IF new = old THEN old ELSE [new EXCEPT !.updated_at = clock]

\* INSERT of one row under a fresh primary key
Insert(table, row) ==
    [i \in DOMAIN table \cup {NextId(table)} |->
        IF i \in DOMAIN table THEN table[i] ELSE row]

\* DELETE of the rows whose keys are in ids
Delete(table, ids) == [i \in DOMAIN table \ ids |-> table[i]]

RECURSIVE InsertAll(_, _)
InsertAll(table, rows) ==
    IF rows = <<>> THEN table
    ELSE InsertAll(Insert(table, Head(rows)), Tail(rows))

\* the rows a relationship Bookmark.aliases loads, by primary key
BookmarkAliases(als, bookmark_id) ==
    Ascending({i \in DOMAIN als : als[i].bookmark_id = bookmark_id})

-----------------------------------------------------------------------------
(* app/services/redirect_service.py: lookup and usage *)

\* a lookup that tries the aliases before the names
find_alias_first(bks, als, command) ==
    LET byName == {i \in DOMAIN bks : bks[i].name = command}
        byAlias == {i \in DOMAIN als : als[i].alias = command}
    IN  IF byAlias # {} THEN als[Min(byAlias)].bookmark_id
        ELSE IF byName # {} THEN Min(byName)
        ELSE 0

\* the id of the bookmark found, 0 for None
find_bookmark_by_name_or_alias(bks, als, command) ==
    LET byName == {i \in DOMAIN bks : bks[i].name = command}
        byAlias == {i \in DOMAIN als : als[i].alias = command}
    IN  IF byName # {} THEN Min(byName)
        ELSE IF byAlias # {} THEN als[Min(byAlias)].bookmark_id
        ELSE 0

\* an increment that raises the use_count of every bookmark
increment_usage_of_every_bookmark(bks, bookmark_id) ==
    [b \in DOMAIN bks |->
        Touched(bks[b], [bks[b] EXCEPT !.use_count = @ + 1])]

increment_usage(bks, bookmark_id) ==
    [bks EXCEPT ![bookmark_id] =
        Touched(bks[bookmark_id],
                [bks[bookmark_id] EXCEPT !.use_count = @ + 1])]

-----------------------------------------------------------------------------
(* app/services/fuzzy_matcher.py *)

\* dict assignment commands[key] = value: a key already present keeps its
\* place in the iteration order and takes the new value
DictSet(commands, key, bookmark_id) ==
    IF \E i \in 1..Len(commands) : commands[i].command = key
    THEN [i \in 1..Len(commands) |->
            IF commands[i].command = key
            THEN [command |-> key, bookmark_id |-> bookmark_id]
            ELSE commands[i]]
    ELSE Append(commands, [command |-> key, bookmark_id |-> bookmark_id])

RECURSIVE AddAliases(_, _, _, _)
AddAliases(commands, als, ids, bookmark_id) ==
    IF ids = <<>> THEN commands
    ELSE AddAliases(DictSet(commands, als[Head(ids)].alias, bookmark_id),
                    als, Tail(ids), bookmark_id)

RECURSIVE AddBookmarks(_, _, _, _)
AddBookmarks(commands, bks, als, ids) ==
    IF ids = <<>> THEN commands
    ELSE LET b == Head(ids)
             named == DictSet(commands, bks[b].name, b)
         IN  AddBookmarks(AddAliases(named, als, BookmarkAliases(als, b), b),
                          bks, als, Tail(ids))

\* the rebuild of the command snapshot: every bookmark's name, then its
\* aliases, in the order the rows are read
get_all_commands(bks, als) ==
    AddBookmarks(<<>>, bks, als, Ascending(DOMAIN bks))

\* the length of the longest common subsequence of s and t
RECURSIVE LCS(_, _)
LCS(s, t) ==
    IF s = <<>> \/ t = <<>> THEN 0
    ELSE IF Head(s) = Head(t) THEN 1 + LCS(Tail(s), Tail(t))
    ELSE LET a == LCS(Tail(s), t)
             b == LCS(s, Tail(t))
         IN  IF a >= b THEN a ELSE b

RECURSIVE GCD(_, _)
GCD(a, b) == IF b = 0 THEN a ELSE GCD(b, a % b)

\* rapidfuzz.fuzz.ratio: 100 * 2 * LCS / (len(s) + len(t)), a fraction in
\* lowest terms, so that equal scores are equal records
ratio(s, t) ==
    IF Len(s) + Len(t) = 0 THEN [num |-> 100, den |-> 1]
    ELSE LET n == 200 * LCS(s, t)
             d == Len(s) + Len(t)
             g == GCD(n, d)
         IN  [num |-> n \div g, den |-> d \div g]

ScoreLess(a, b) == a.num * b.den < b.num * a.den

\* a sort key that leaves use_count out
KeyGreaterScoreOnly(x, y) == ScoreLess(y.score, x.score)

\* the sort key (score, use_count) of x is greater than that of y
KeyGreater(x, y) ==
    \/ ScoreLess(y.score, x.score)
    \/ x.score = y.score /\ x.use_count > y.use_count

\* x goes before the first entry with a smaller key, after its equals
RECURSIVE SortedInsert(_, _)
SortedInsert(sorted, x) ==
    IF sorted = <<>> THEN <<x>>
    ELSE IF KeyGreater(x, Head(sorted)) THEN <<x>> \o sorted
    ELSE <<Head(sorted)>> \o SortedInsert(Tail(sorted), x)

\* list.sort(key=(score, use_count), reverse=True): stable, descending
RECURSIVE SortMatches(_, _)
SortMatches(sorted, matches) ==
    IF matches = <<>> THEN sorted
    ELSE SortMatches(SortedInsert(sorted, Head(matches)), Tail(matches))

\* a scoring loop that compares the query as typed
RECURSIVE ScoreCommandsAsTyped(_, _, _, _)
ScoreCommandsAsTyped(commands, bks, query, threshold) ==
    IF commands = <<>> THEN <<>>
    ELSE LET c == Head(commands)
             b == bks[c.bookmark_id]
             score == ratio(query, c.command)
             rest == ScoreCommandsAsTyped(Tail(commands), bks, query, threshold)
         IN  IF score.num >= threshold * score.den
             THEN <<[name |-> c.command, url |-> b.url,
                     description |-> b.description, score |-> score,
                     use_count |-> b.use_count,
                     bookmark_id |-> c.bookmark_id]>> \o rest
             ELSE rest

\* the scoring loop over commands.items()
RECURSIVE ScoreCommands(_, _, _, _)
ScoreCommands(commands, bks, query, threshold) ==
    IF commands = <<>> THEN <<>>
    ELSE LET c == Head(commands)
             b == bks[c.bookmark_id]
             score == ratio(lower(query), lower(c.command))
             rest == ScoreCommands(Tail(commands), bks, query, threshold)
         IN  IF score.num >= threshold * score.den
             THEN <<[name |-> c.command, url |-> b.url,
                     description |-> b.description, score |-> score,
                     use_count |-> b.use_count,
                     bookmark_id |-> c.bookmark_id]>> \o rest
             ELSE rest

\* a loop that forgets which bookmarks it has seen
RECURSIVE UniqueMatchesUnseen(_, _, _, _)
UniqueMatchesUnseen(matches, seen_bookmarks, unique_matches, limit) ==
    IF matches = <<>> THEN unique_matches
    ELSE LET kept == Append(unique_matches, Head(matches))
         IN  IF Len(kept) >= limit THEN kept
             ELSE UniqueMatchesUnseen(Tail(matches), seen_bookmarks, kept, limit)

\* a loop in which a later match of a bookmark takes the place of the one
\* kept for it
RECURSIVE UniqueMatchesKeepingLast(_, _, _, _)
UniqueMatchesKeepingLast(matches, seen_bookmarks, unique_matches, limit) ==
    IF matches = <<>> THEN unique_matches
    ELSE LET match == Head(matches)
         IN  IF match.bookmark_id \notin seen_bookmarks
             THEN LET kept == Append(unique_matches, match)
                  IN  IF Len(kept) >= limit THEN kept
                      ELSE UniqueMatchesKeepingLast(Tail(matches),
                               seen_bookmarks \cup {match.bookmark_id},
                               kept, limit)
             ELSE UniqueMatchesKeepingLast(Tail(matches), seen_bookmarks,
                      [i \in 1..Len(unique_matches) |->
                          IF unique_matches[i].bookmark_id = match.bookmark_id
                          THEN match ELSE unique_matches[i]],
                      limit)

\* the deduplication loop, with its break once limit entries are kept
RECURSIVE UniqueMatches(_, _, _, _)
UniqueMatches(matches, seen_bookmarks, unique_matches, limit) ==
    IF matches = <<>> THEN unique_matches
    ELSE LET match == Head(matches)
         IN  IF match.bookmark_id \notin seen_bookmarks
             THEN LET kept == Append(unique_matches, match)
                  IN  IF Len(kept) >= limit THEN kept
                      ELSE UniqueMatches(Tail(matches),
                               seen_bookmarks \cup {match.bookmark_id},
                               kept, limit)
             ELSE UniqueMatches(Tail(matches), seen_bookmarks,
                                unique_matches, limit)

find_similar_commands(bks, als, query, threshold, limit) ==
    LET commands == get_all_commands(bks, als)
    IN  IF commands = <<>> THEN <<>>
        ELSE UniqueMatches(
                 SortMatches(<<>>, ScoreCommands(commands, bks, query, threshold)),
                 {}, <<>>, limit)

\* One call on a matcher that holds no snapshot yet.  When the query that
\* reads the tables fails, nothing in _get_all_commands or in
\* find_similar_commands catches the exception: it leaves the call.
FuzzyCall(bks, als, query, threshold, limit, storage_fails) ==
    IF storage_fails
    THEN [raised |-> TRUE, result |-> <<>>]
    ELSE [raised |-> FALSE,
          result |-> find_similar_commands(bks, als, query, threshold, limit)]

-----------------------------------------------------------------------------
(* app/services/redirect_service.py: process_redirect *)

RedirectResult(url, suggestions) ==
    [raised |-> FALSE, url |-> url, suggestions |-> suggestions]

\* an exception leaving process_redirect: no RedirectResult is returned
Raised == [raised |-> TRUE, url |-> None, suggestions |-> None]

\* The places where the storage may fail during one call
FailPoints == {"none", "lookup", "commit", "snapshot"}

\* a hit that swallows the failure of the commit and redirects all the same
RedirectHitSwallowingFailure(bks, bookmark_id, args, fail) ==
    [result |-> RedirectResult(
                    Some(substitute_args(bks[bookmark_id].url, args)), None),
     bookmarks |-> IF fail = "commit" THEN bks
                   ELSE increment_usage(bks, bookmark_id)]

\* the branch taken when the exact match found bookmark_id
RedirectHit(bks, bookmark_id, args, fail) ==
    IF fail = "commit"
    THEN [result |-> Raised, bookmarks |-> bks]
    ELSE [result |-> RedirectResult(
                         Some(substitute_args(bks[bookmark_id].url, args)), None),
          bookmarks |-> increment_usage(bks, bookmark_id)]

\* a miss that counts a use for the bookmark of its first suggestion
RedirectMissCounting(bks, als, query, command, fuzzy, default_fallback_url, fail) ==
    LET call == FuzzyCall(bks, als, command, fuzzy[1].threshold,
                          fuzzy[1].limit, fail = "snapshot")
    IN  IF fuzzy # None /\ call.raised
        THEN [result |-> Raised, bookmarks |-> bks]
        ELSE IF fuzzy # None /\ call.result # <<>>
        THEN [result |-> RedirectResult(None, Some(call.result)),
              bookmarks |-> increment_usage(bks, call.result[1].bookmark_id)]
        ELSE [result |-> RedirectResult(
                             Some(substitute_args(default_fallback_url, query)),
                             None),
              bookmarks |-> bks]

\* a miss that returns whatever list the matcher gives, the empty one too
RedirectMissAlwaysSuggesting(bks, als, query, command, fuzzy, default_fallback_url, fail) ==
    LET call == FuzzyCall(bks, als, command, fuzzy[1].threshold,
                          fuzzy[1].limit, fail = "snapshot")
    IN  IF fuzzy # None /\ call.raised
        THEN [result |-> Raised, bookmarks |-> bks]
        ELSE IF fuzzy # None
        THEN [result |-> RedirectResult(None, Some(call.result)),
              bookmarks |-> bks]
        ELSE [result |-> RedirectResult(
                             Some(substitute_args(default_fallback_url, query)),
                             None),
              bookmarks |-> bks]

\* the branch taken when the exact match found nothing; fuzzy is None or
\* Some of a matcher [threshold, limit] built for this call (no snapshot yet)
RedirectMiss(bks, als, query, command, fuzzy, default_fallback_url, fail) ==
    LET call == FuzzyCall(bks, als, command, fuzzy[1].threshold,
                          fuzzy[1].limit, fail = "snapshot")
    IN  IF fuzzy # None /\ call.raised
        THEN [result |-> Raised, bookmarks |-> bks]
        ELSE IF fuzzy # None /\ call.result # <<>>
        THEN [result |-> RedirectResult(None, Some(call.result)),
              bookmarks |-> bks]
        ELSE [result |-> RedirectResult(
                             Some(substitute_args(default_fallback_url, query)),
                             None),
              bookmarks |-> bks]

\* a call that parses and looks up every query, the blank ones too
process_redirect_without_blank_check(bks, als, query, fuzzy, default_fallback_url, fail) ==
    LET parsed == parse_query(query)
        bookmark == find_bookmark_by_name_or_alias(bks, als, parsed.command)
    IN  IF fail = "lookup"
        THEN [result |-> Raised, bookmarks |-> bks]
        ELSE IF bookmark # 0
        THEN RedirectHit(bks, bookmark, parsed.args, fail)
        ELSE RedirectMiss(bks, als, query, parsed.command, fuzzy,
                          default_fallback_url, fail)

process_redirect(bks, als, query, fuzzy, default_fallback_url, fail) ==
    LET parsed == parse_query(query)
        bookmark == find_bookmark_by_name_or_alias(bks, als, parsed.command)
    IN  IF strip(query) = <<>>
        THEN [result |-> RedirectResult(
                             Some(replace_marker(default_fallback_url, <<>>)),
                             None),
              bookmarks |-> bks]
        ELSE IF fail = "lookup"
        THEN [result |-> Raised, bookmarks |-> bks]
        ELSE IF bookmark # 0
        THEN RedirectHit(bks, bookmark, parsed.args, fail)
        ELSE RedirectMiss(bks, als, query, parsed.command, fuzzy,
                          default_fallback_url, fail)

\* app/routes/redirect.py: the status of the response made from a result
index_status(result) ==
    IF result.raised THEN 500
    ELSE IF result.url # None /\ result.url[1] # <<>> THEN 302
    ELSE IF result.suggestions # None /\ result.suggestions[1] # <<>> THEN 200
    ELSE 302

\* app/routes/redirect.py:29-40: the branch of index that answers, and where
\* its redirect leads; "g?" stands for https://www.google.com/search?q=
index_response(result, query) ==
    IF result.url # None /\ result.url[1] # <<>>
    THEN [branch |-> "url", status |-> 302, location |-> result.url]
    ELSE IF result.suggestions # None /\ result.suggestions[1] # <<>>
    THEN [branch |-> "suggestions", status |-> 200, location |-> None]
    ELSE [branch |-> "shouldn't happen", status |-> 302,
          location |-> Some(<<"g", "?">> \o query)]

-----------------------------------------------------------------------------
(* app/routes/bookmarks.py: the handlers, as functions of the tables *)

Response(status, bks, als) ==
    [status |-> status, bookmarks |-> bks, aliases |-> als]

\* the non-empty normalized aliases of a request's aliases list
RECURSIVE NormalizedAliases(_)
NormalizedAliases(names) ==
    IF names = <<>> THEN <<>>
    ELSE LET normalized_alias == normalize_command(Head(names))
         IN  IF normalized_alias # <<>>
             THEN <<normalized_alias>> \o NormalizedAliases(Tail(names))
             ELSE NormalizedAliases(Tail(names))

\* the unique constraint on aliases.alias refuses the rows at commit
AliasIntegrityError(als, new) ==
    \/ \E i \in 1..Len(new) : \E j \in DOMAIN als : als[j].alias = new[i]
    \/ \E i, j \in 1..Len(new) : i # j /\ new[i] = new[j]

\* a handler that commits the bookmark before it adds the aliases
create_bookmark_committing_bookmark_first(bks, als, data) ==
    IF data.name = None \/ data.name[1] = <<>>
       \/ data.url = None \/ data.url[1] = <<>>
    THEN Response(400, bks, als)
    ELSE LET normalized_name == normalize_command(data.name[1])
             id == NextId(bks)
             new == IF data.aliases = None THEN <<>>
                    ELSE NormalizedAliases(data.aliases[1])
             stored == Insert(bks, Bookmark(normalized_name, data.url[1],
                                            data.description))
         IN  IF \E i \in DOMAIN bks : bks[i].name = normalized_name
             THEN Response(400, bks, als)
             ELSE IF AliasIntegrityError(als, new)
             THEN Response(500, stored, als)
             ELSE Response(201, stored,
                      InsertAll(als, [i \in 1..Len(new) |-> Alias(new[i], id)]))

\* data: [name, url, description, aliases], each None when the key is absent
create_bookmark(bks, als, data) ==
    IF data.name = None \/ data.name[1] = <<>>
       \/ data.url = None \/ data.url[1] = <<>>
    THEN Response(400, bks, als)
    ELSE LET normalized_name == normalize_command(data.name[1])
             id == NextId(bks)
             new == IF data.aliases = None THEN <<>>
                    ELSE NormalizedAliases(data.aliases[1])
         IN  IF \E i \in DOMAIN bks : bks[i].name = normalized_name
             THEN Response(400, bks, als)
             ELSE IF AliasIntegrityError(als, new)
             THEN Response(500, bks, als)
             ELSE Response(201,
                      Insert(bks, Bookmark(normalized_name, data.url[1],
                                           data.description)),
                      InsertAll(als, [i \in 1..Len(new) |-> Alias(new[i], id)]))

\* an update that also sets use_count back to its default
update_bookmark_resetting_usage(bks, als, bookmark_id, data) ==
    IF bookmark_id \notin DOMAIN bks THEN Response(404, bks, als)
    ELSE IF data.name = None /\ data.url = None /\ data.description = None
    THEN Response(400, bks, als)
    ELSE LET normalized_name == normalize_command(data.name[1])
             conflict == data.name # None
                         /\ \E i \in DOMAIN bks :
                                bks[i].name = normalized_name /\ i # bookmark_id
             b0 == [bks[bookmark_id] EXCEPT !.use_count = 0]
             b1 == IF data.name # None
                   THEN [b0 EXCEPT !.name = normalized_name] ELSE b0
             b2 == IF data.url # None
                   THEN [b1 EXCEPT !.url = data.url[1]] ELSE b1
         IN  IF conflict THEN Response(400, bks, als)
             ELSE Response(200, [bks EXCEPT ![bookmark_id] =
                                    Touched(bks[bookmark_id], b2)], als)

\* data: [name, url, description], each None when the key is absent; the
\* description key, when present, carries a value that may itself be null
update_bookmark(bks, als, bookmark_id, data) ==
    IF bookmark_id \notin DOMAIN bks THEN Response(404, bks, als)
    ELSE IF data.name = None /\ data.url = None /\ data.description = None
    THEN Response(400, bks, als)
    ELSE LET normalized_name == normalize_command(data.name[1])
             conflict == data.name # None
                         /\ \E i \in DOMAIN bks :
                                bks[i].name = normalized_name /\ i # bookmark_id
             b0 == bks[bookmark_id]
             b1 == IF data.name # None
                   THEN [b0 EXCEPT !.name = normalized_name] ELSE b0
             b2 == IF data.url # None
                   THEN [b1 EXCEPT !.url = data.url[1]] ELSE b1
             b3 == IF data.description # None
                   THEN [b2 EXCEPT !.description = data.description[1]] ELSE b2
         IN  IF conflict THEN Response(400, bks, als)
             ELSE Response(200, [bks EXCEPT ![bookmark_id] = Touched(b0, b3)],
                           als)

\* a delete that leaves the aliases of the bookmark in their table
delete_bookmark_without_cascade(bks, als, bookmark_id) ==
    IF bookmark_id \notin DOMAIN bks THEN Response(404, bks, als)
    ELSE Response(204, Delete(bks, {bookmark_id}), als)

\* the relationship's cascade deletes the bookmark's aliases with it
delete_bookmark(bks, als, bookmark_id) ==
    IF bookmark_id \notin DOMAIN bks THEN Response(404, bks, als)
    ELSE Response(204, Delete(bks, {bookmark_id}),
                  Delete(als, {i \in DOMAIN als :
                                   als[i].bookmark_id = bookmark_id}))

\* an add_alias that checks the alias against the aliases only
add_alias_unchecked_against_names(bks, als, bookmark_id, alias) ==
    IF bookmark_id \notin DOMAIN bks THEN Response(404, bks, als)
    ELSE IF alias = None \/ alias[1] = <<>> THEN Response(400, bks, als)
    ELSE LET normalized_alias == normalize_command(alias[1])
         IN  IF \E i \in DOMAIN als : als[i].alias = normalized_alias
             THEN Response(400, bks, als)
             ELSE Response(201, bks,
                           Insert(als, Alias(normalized_alias, bookmark_id)))

\* alias: None when the key is absent
add_alias(bks, als, bookmark_id, alias) ==
    IF bookmark_id \notin DOMAIN bks THEN Response(404, bks, als)
    ELSE IF alias = None \/ alias[1] = <<>> THEN Response(400, bks, als)
    ELSE LET normalized_alias == normalize_command(alias[1])
         IN  IF \E i \in DOMAIN als : als[i].alias = normalized_alias
             THEN Response(400, bks, als)
             ELSE IF \E i \in DOMAIN bks : bks[i].name = normalized_alias
             THEN Response(400, bks, als)
             ELSE Response(201, bks,
                           Insert(als, Alias(normalized_alias, bookmark_id)))

delete_alias(bks, als, alias_id) ==
    IF alias_id \notin DOMAIN als THEN Response(404, bks, als)
    ELSE Response(204, bks, Delete(als, {alias_id}))

-----------------------------------------------------------------------------
(* Inputs *)

\* config.py; the fallback url stands for https://www.google.com/search?q=%s
FUZZY_MATCH_THRESHOLD == 60
FUZZY_MATCH_LIMIT == 3
DEFAULT_FALLBACK_URL == <<"g", "?", "%", "s">>

\* what the requests carry: names and aliases as typed (upper case, blanks
\* around them, blank only), url templates with and without the marker

RawCommands == {<<"a">>, <<"B", " ">>, <<" ">>}
Urls == {<<"u", "%", "s">>, <<"v">>}
AliasLists == {None, Some(<< <<"A">> >>), Some(<< <<"b">>, <<" ">> >>),
               Some(<< <<"a">>, <<"b">> >>), Some(<< <<"b">>, <<"B">> >>)}
Queries == {<<>>, <<"A", " ", "x">>, <<"b">>, <<"a", "b", " ", "&">>, <<"z">>}
BlankQueries == {<<>>, <<" ">>}
Matchers == {None, Some([threshold |-> FUZZY_MATCH_THRESHOLD,
                         limit |-> FUZZY_MATCH_LIMIT])}

\* request bodies: a key that is None is absent from the JSON object
CreateData ==
    [name : {Some(c) : c \in RawCommands}, url : {Some(u) : u \in Urls},
     description : {Some(<<"d">>)}, aliases : AliasLists]
    \cup {[name |-> None, url |-> Some(<<"v">>), description |-> None,
           aliases |-> None],
          [name |-> Some(<<"a">>), url |-> Some(<<>>), description |-> None,
           aliases |-> None]}

UpdateData ==
    [name : {None, Some(<<"A">>), Some(<<" ", "b">>), Some(<<" ">>)},
     url : {None, Some(<<"v">>)},
     description : {None, Some(Some(<<"d">>))}]

AliasData == {None, Some(<<>>)} \cup {Some(c) : c \in RawCommands}

BookmarkIds == 1..MaxBookmarks
AliasIds == 1..MaxAliases

\* the tables stay within the bounds of the model
WithinBounds(bks, als) ==
    /\ DOMAIN bks \subseteq BookmarkIds
    /\ DOMAIN als \subseteq AliasIds
    /\ \A i \in DOMAIN bks : bks[i].use_count <= MaxUse

-----------------------------------------------------------------------------
(* The requests, one handler run to completion per step (gunicorn.conf.py:  *)
(* one sync worker)                                                        *)

NoResult == RedirectResult(None, None)

Crud(op, r) ==
    /\ WithinBounds(r.bookmarks, r.aliases)
    /\ bookmarks' = r.bookmarks
    /\ aliases' = r.aliases
    /\ last' = [op |-> op, status |-> r.status, query |-> <<>>, fuzzy |-> None,
                fail |-> "none", result |-> NoResult, before |-> <<>>,
                before_aliases |-> <<>>, request |-> None]
    /\ UNCHANGED <<fz, pc, loaded, served, cacheVars>>

CreateBookmark ==
    \E data \in CreateData :
        Crud("create_bookmark", create_bookmark(bookmarks, aliases, data))

UpdateBookmark ==
    \E id \in BookmarkIds, data \in UpdateData :
        Crud("update_bookmark", update_bookmark(bookmarks, aliases, id, data))

DeleteBookmark ==
    \E id \in BookmarkIds :
        Crud("delete_bookmark", delete_bookmark(bookmarks, aliases, id))

AddAlias ==
    \E id \in BookmarkIds, alias \in AliasData :
        Crud("add_alias", add_alias(bookmarks, aliases, id, alias))

DeleteAlias ==
    \E id \in AliasIds :
        Crud("delete_alias", delete_alias(bookmarks, aliases, id))

\* the call reaches the storage access that fail names (a failure of an
\* access the call never makes is no failure), and it is made without a
\* matcher only where the matcher would have been used
FailureStrikes(bks, als, query, fuzzy, fail) ==
    LET hit == find_bookmark_by_name_or_alias(bks, als,
                                              parse_query(query).command) # 0
    IN  \/ fail = "none" /\ (fuzzy # None \/ (strip(query) # <<>> /\ ~hit))
        \/ fail = "lookup" /\ fuzzy # None /\ strip(query) # <<>>
        \/ fail = "commit" /\ strip(query) # <<>> /\ hit
        \/ fail = "snapshot" /\ strip(query) # <<>> /\ ~hit /\ fuzzy # None

\* one call of process_redirect and the response made from its result
Redirect(query, fuzzy, fail) ==
    LET r == process_redirect(bookmarks, aliases, query, fuzzy,
                              DEFAULT_FALLBACK_URL, fail)
    IN  /\ WithinBounds(r.bookmarks, aliases)
        /\ bookmarks' = r.bookmarks
        /\ last' = [op |-> "process_redirect",
                    status |-> index_status(r.result), query |-> query,
                    fuzzy |-> fuzzy, fail |-> fail, result |-> r.result,
                    before |-> bookmarks, before_aliases |-> aliases,
                    request |-> None]
        /\ UNCHANGED <<aliases, fz, pc, loaded, served, cacheVars>>

\* GET /?q=query, or a direct call of process_redirect without a matcher
ProcessRedirect ==
    \E query \in Queries, fuzzy \in Matchers, fail \in FailPoints :
        /\ FailureStrikes(bookmarks, aliases, query, fuzzy, fail)
        /\ Redirect(query, fuzzy, fail)

\* a blank query, sent whatever the state of the storage and with or
\* without a matcher
BlankRedirect ==
    \E query \in BlankQueries, fuzzy \in Matchers, fail \in FailPoints :
        Redirect(query, fuzzy, fail)

\* FuzzyMatcher.__init__: no snapshot, no timestamp
NewMatcher == [_commands_cache |-> None, _cache_timestamp |-> None]

\* the callers of the shared matcher
Callers == {1, 2}

\* a caller outside _get_all_commands; got is what its last call returned
NoFrame == [pc |-> "idle", now |-> 0, commands |-> <<>>, todo |-> <<>>,
            rows |-> None, got |-> None]

\* nobody shares a matcher
CacheIdle ==
    /\ matcher = NewMatcher
    /\ caller = [c \in Callers |-> NoFrame]
    /\ clock = 0

\* no request has been recorded yet
NoRequest == [op |-> "none", status |-> 0, query |-> <<>>, fuzzy |-> None,
              fail |-> "none", result |-> NoResult, before |-> <<>>,
              before_aliases |-> <<>>, request |-> None]

NoCall == [query |-> <<>>, threshold |-> 0, limit |-> 0, fail |-> FALSE,
           raised |-> FALSE, result |-> <<>>, called |-> FALSE]

NoWorker == [id |-> 0, use_count |-> 0]

Init ==
    /\ bookmarks = <<>>
    /\ aliases = <<>>
    /\ last = NoRequest
    /\ fz = NoCall
    /\ pc = [w \in 1..NumWorkers |-> "idle"]
    /\ loaded = [w \in 1..NumWorkers |-> NoWorker]
    /\ served = 0
    /\ CacheIdle

Next ==
    \/ CreateBookmark
    \/ UpdateBookmark
    \/ DeleteBookmark
    \/ AddAlias
    \/ DeleteAlias
    \/ ProcessRedirect

Spec == Init /\ [][Next]_vars

-----------------------------------------------------------------------------
(* One observed call on tables filled through the handlers.  A call of      *)
(* find_similar_commands and a miss leave the tables as they are, and what  *)
(* a call returns depends on the tables and its arguments only: the        *)
(* requests that fill the tables are not recorded, and the behaviour ends   *)
(* with the one call that is.                                              *)

Building == last.op = "none" /\ ~fz.called

BuildCreateData ==
    [name : {Some(c) : c \in RawCommands}, url : {Some(<<"v">>)},
     description : {None},
     aliases : {None, Some(<< <<"A">> >>), Some(<< <<"b">>, <<" ">> >>)}]

BuildUpdateData ==
    [name : {Some(<<"A">>), Some(<<" ", "b">>), Some(<<" ">>)},
     url : {None}, description : {None}]

Build(r) ==
    /\ Building
    /\ r.status \in {200, 201, 204}
    /\ WithinBounds(r.bookmarks, r.aliases)
    /\ bookmarks' = r.bookmarks
    /\ aliases' = r.aliases
    /\ UNCHANGED <<last, fz, pc, loaded, served, cacheVars>>

BuildCreateBookmark ==
    \E data \in BuildCreateData :
        Build(create_bookmark(bookmarks, aliases, data))

BuildUpdateBookmark ==
    \E id \in BookmarkIds, data \in BuildUpdateData :
        Build(update_bookmark(bookmarks, aliases, id, data))

BuildDeleteBookmark ==
    \E id \in BookmarkIds :
        Build(delete_bookmark(bookmarks, aliases, id))

BuildAddAlias ==
    \E id \in BookmarkIds, c \in RawCommands :
        Build(add_alias(bookmarks, aliases, id, Some(c)))

BuildDeleteAlias ==
    \E id \in AliasIds :
        Build(delete_alias(bookmarks, aliases, id))

\* a redirect that hits: the call that raises a use_count
BuildRedirect ==
    \E query \in {<<"a">>, <<"b">>} :
        LET r == process_redirect(bookmarks, aliases, query, None,
                                  DEFAULT_FALLBACK_URL, "none")
        IN  /\ r.bookmarks # bookmarks
            /\ Build([status |-> 200, bookmarks |-> r.bookmarks,
                      aliases |-> aliases])

BuildStep ==
    \/ BuildCreateBookmark
    \/ BuildUpdateBookmark
    \/ BuildDeleteBookmark
    \/ BuildAddAlias
    \/ BuildDeleteAlias
    \/ BuildRedirect

FzQueries == {<<"a", "b">>, <<"A">>, <<"z">>}
Thresholds == {0, FUZZY_MATCH_THRESHOLD}
Limits == {-1, 0, 1, FUZZY_MATCH_LIMIT}

\* the arguments of one call: a failing storage fails whatever they are
FzCalls ==
    [query : FzQueries, threshold : Thresholds, limit : Limits,
     storage_fails : {FALSE}]
    \cup {[query |-> <<"a", "b">>, threshold |-> FUZZY_MATCH_THRESHOLD,
           limit |-> FUZZY_MATCH_LIMIT, storage_fails |-> TRUE]}

FindSimilarCommands ==
    \E c \in FzCalls :
        LET call == FuzzyCall(bookmarks, aliases, c.query, c.threshold,
                              c.limit, c.storage_fails)
        IN  /\ Building
            /\ fz' = [query |-> c.query, threshold |-> c.threshold,
                      limit |-> c.limit, fail |-> c.storage_fails,
                      raised |-> call.raised, result |-> call.result,
                      called |-> TRUE]
            /\ UNCHANGED <<bookmarks, aliases, last, pc, loaded, served, cacheVars>>

NextFuzzy ==
    \/ BuildStep
    \/ FindSimilarCommands

SpecFuzzy == Init /\ [][NextFuzzy]_vars

\* the one observed request of a behaviour is a redirect
ObservedRedirect ==
    /\ Building
    /\ \/ ProcessRedirect
       \/ BlankRedirect

NextRedirect ==
    \/ BuildStep
    \/ ObservedRedirect

SpecRedirect == Init /\ [][NextRedirect]_vars

\* One observed request of any kind: a write to /api, recorded with what it
\* carried and the tables it found, or a redirect.
Observed(op, bookmark_id, data, r) ==
    /\ Building
    /\ WithinBounds(r.bookmarks, r.aliases)
    /\ bookmarks' = r.bookmarks
    /\ aliases' = r.aliases
    /\ last' = [op |-> op, status |-> r.status, query |-> <<>>, fuzzy |-> None,
                fail |-> "none", result |-> NoResult, before |-> bookmarks,
                before_aliases |-> aliases,
                request |-> Some([id |-> bookmark_id, data |-> data])]
    /\ UNCHANGED <<fz, pc, loaded, served, cacheVars>>

\* the bodies of the observed writes: names as typed, with and without
\* aliases, and the bodies the handlers refuse
ObservedCreateData ==
    [name : {Some(c) : c \in RawCommands}, url : {Some(<<"v">>)},
     description : {None},
     aliases : {None, Some(<< <<"A">> >>), Some(<< <<"b">>, <<" ">> >>)}]
    \cup {[name |-> None, url |-> Some(<<"v">>), description |-> None,
           aliases |-> None],
          [name |-> Some(<<"a">>), url |-> Some(<<>>), description |-> None,
           aliases |-> None]}

ObservedUpdateData ==
    [name : {None, Some(<<"A">>), Some(<<" ", "b">>), Some(<<" ">>)},
     url : {None, Some(<<"u", "%", "s">>)}, description : {None}]

ObservedCreateBookmark ==
    \E data \in ObservedCreateData :
        Observed("create_bookmark", 0, data,
                 create_bookmark(bookmarks, aliases, data))

ObservedUpdateBookmark ==
    \E id \in BookmarkIds, data \in ObservedUpdateData :
        Observed("update_bookmark", id, data,
                 update_bookmark(bookmarks, aliases, id, data))

ObservedDeleteBookmark ==
    \E id \in BookmarkIds :
        Observed("delete_bookmark", id, None,
                 delete_bookmark(bookmarks, aliases, id))

ObservedAddAlias ==
    \E id \in BookmarkIds, alias \in AliasData :
        Observed("add_alias", id, alias,
                 add_alias(bookmarks, aliases, id, alias))

ObservedDeleteAlias ==
    \E id \in AliasIds :
        Observed("delete_alias", id, None,
                 delete_alias(bookmarks, aliases, id))

NextRequest ==
    \/ BuildStep
    \/ ObservedCreateBookmark
    \/ ObservedUpdateBookmark
    \/ ObservedDeleteBookmark
    \/ ObservedAddAlias
    \/ ObservedDeleteAlias
    \/ ObservedRedirect

SpecRequest == Init /\ [][NextRequest]_vars

\* GET /?q=query observed on bookmarks whose url is the marker alone or
\* holds none: index always passes a matcher made from the configuration
EndpointCreateData ==
    [name : {Some(<<"a">>), Some(<<"B", " ">>)},
     url : {Some(<<"%", "s">>), Some(<<"v">>)},
     description : {None},
     aliases : {None, Some(<< <<"A", "b">> >>)}]

EndpointCreateBookmark ==
    \E data \in EndpointCreateData :
        Build(create_bookmark(bookmarks, aliases, data))

\* PUT /api/bookmarks/<id> {url: ...}: any string is stored, the empty one
\* as well
EndpointUpdateUrl ==
    \E id \in BookmarkIds, url \in {<<>>, <<"u", "%", "s">>} :
        Build(update_bookmark(bookmarks, aliases, id,
                              [name |-> None, url |-> Some(url),
                               description |-> None]))

Index ==
    \E query \in Queries \cup BlankQueries, fail \in FailPoints :
        LET fuzzy_matcher == Some([threshold |-> FUZZY_MATCH_THRESHOLD,
                                   limit |-> FUZZY_MATCH_LIMIT])
        IN  /\ Building
            /\ FailureStrikes(bookmarks, aliases, query, fuzzy_matcher, fail)
            /\ Redirect(query, fuzzy_matcher, fail)

NextEndpoint ==
    \/ EndpointCreateBookmark
    \/ EndpointUpdateUrl
    \/ Index

SpecEndpoint == Init /\ [][NextEndpoint]_vars

-----------------------------------------------------------------------------
(* The pure functions of redirect_service.py, each applied once to an       *)
(* argument drawn from every string up to a length                          *)

\* the sequences over chars of length at most n
Strings(chars, n) == UNION {[1..k -> chars] : k \in 0..n}

QueryChars == {"a", "B", " "}
TemplateChars == {"%", "s", "u"}
ArgsChars == {"x", " ", "&", "s"}

PureCalls ==
    [fn : {"parse_query"}, query : Strings(QueryChars, MaxQueryLen)]
    \cup [fn : {"substitute_args"},
          url_template : Strings(TemplateChars, MaxTemplateLen),
          args : Strings(ArgsChars, MaxArgsLen)]

InitPure ==
    /\ bookmarks = <<>>
    /\ aliases = <<>>
    /\ last \in {[NoRequest EXCEPT !.request = Some(c)] : c \in PureCalls}
    /\ fz = NoCall
    /\ pc = [w \in 1..NumWorkers |-> "idle"]
    /\ loaded = [w \in 1..NumWorkers |-> NoWorker]
    /\ served = 0
    /\ CacheIdle

ParseQuery ==
    /\ last.op = "none"
    /\ last.request[1].fn = "parse_query"
    /\ last' = [last EXCEPT !.op = "parse_query",
                            !.result = parse_query(last.request[1].query)]
    /\ UNCHANGED <<bookmarks, aliases, fz, pc, loaded, served, cacheVars>>

SubstituteArgs ==
    /\ last.op = "none"
    /\ last.request[1].fn = "substitute_args"
    /\ last' = [last EXCEPT !.op = "substitute_args",
                            !.result = substitute_args(
                                           last.request[1].url_template,
                                           last.request[1].args)]
    /\ UNCHANGED <<bookmarks, aliases, fz, pc, loaded, served, cacheVars>>

NextPure ==
    \/ ParseQuery
    \/ SubstituteArgs

SpecPure == InitPure /\ [][NextPure]_vars

-----------------------------------------------------------------------------
(* Concurrent redirects: several workers (threads or processes, each with   *)
(* its own session) inside process_redirect at once.  The statements of a   *)
(* hit are separate steps: the SELECT that loads the Bookmark, the          *)
(* in-memory use_count += 1, and the commit, whose UPDATE writes the value  *)
(* the session holds.                                                       *)

Workers == 1..NumWorkers

ConcQueries == {<<"a", " ", "x">>, <<"B">>}

\* the tables after POST /api/bookmarks {name: a, url: u%s, aliases: [b]}
ConcStore ==
    create_bookmark(<<>>, <<>>,
        [name |-> Some(<<"a">>), url |-> Some(<<"u", "%", "s">>),
         description |-> None, aliases |-> Some(<< <<"b">> >>)])

InitConc ==
    /\ CacheIdle
    /\ bookmarks = ConcStore.bookmarks
    /\ aliases = ConcStore.aliases
    /\ last = NoRequest
    /\ fz = NoCall
    /\ pc = [w \in Workers |-> "idle"]
    /\ loaded = [w \in Workers |-> NoWorker]
    /\ served = 0

\* redirect_service.py:106: the exact match loads the row into the session
WorkerFind(w) ==
    \E query \in ConcQueries :
        LET bookmark == find_bookmark_by_name_or_alias(
                            bookmarks, aliases, parse_query(query).command)
        IN  /\ pc[w] = "idle"
            /\ served + Cardinality({v \in Workers : pc[v] # "idle"}) < MaxHits
            /\ bookmark # 0
            /\ loaded' = [loaded EXCEPT ![w] =
                             [id |-> bookmark,
                              use_count |-> bookmarks[bookmark].use_count]]
            /\ pc' = [pc EXCEPT ![w] = "found"]
            /\ UNCHANGED <<bookmarks, aliases, last, fz, served, cacheVars>>

\* redirect_service.py:79: bookmark.use_count += 1 on the loaded object
WorkerIncrement(w) ==
    /\ pc[w] = "found"
    /\ loaded' = [loaded EXCEPT ![w].use_count = @ + 1]
    /\ pc' = [pc EXCEPT ![w] = "dirty"]
    /\ UNCHANGED <<bookmarks, aliases, last, fz, served, cacheVars>>

\* redirect_service.py:80: the commit flushes UPDATE bookmarks SET use_count
\* = <the session's value> WHERE id = <id>
WorkerCommit(w) ==
    /\ pc[w] = "dirty"
    /\ bookmarks' = [bookmarks EXCEPT
                        ![loaded[w].id].use_count = loaded[w].use_count,
                        ![loaded[w].id].updated_at = clock]
    /\ pc' = [pc EXCEPT ![w] = "committed"]
    /\ UNCHANGED <<aliases, last, fz, loaded, served, cacheVars>>

\* redirect_service.py:109-110: the redirect is returned
WorkerReturn(w) ==
    /\ pc[w] = "committed"
    /\ served' = served + 1
    /\ pc' = [pc EXCEPT ![w] = "idle"]
    /\ loaded' = [loaded EXCEPT ![w] = NoWorker]
    /\ UNCHANGED <<bookmarks, aliases, last, fz, cacheVars>>

NextConc ==
    \E w \in Workers :
        \/ WorkerFind(w)
        \/ WorkerIncrement(w)
        \/ WorkerCommit(w)
        \/ WorkerReturn(w)

SpecConc == InitConc /\ [][NextConc]_vars

-----------------------------------------------------------------------------
(* One FuzzyMatcher shared by two callers of _get_all_commands, while       *)
(* requests change the tables and time passes.  Every read and every write *)
(* of an attribute of the matcher is a step of its own; the SELECT that     *)
(* loads the bookmarks with their aliases is one step; the loop over the    *)
(* rows adds one command per step to the dict the caller holds in its       *)
(* frame.  A snapshot carries the rows it was built from.                   *)

\* FuzzyMatcher.__init__: the default of cache_ttl, in seconds
cache_ttl == 60

\* the assignments commands[...] = bookmark of the loop, in its order
RECURSIVE CommandItems(_, _, _)
CommandItems(bks, als, ids) ==
    IF ids = <<>> THEN <<>>
    ELSE LET b == Head(ids)
             own == BookmarkAliases(als, b)
         IN  <<[command |-> bks[b].name, bookmark_id |-> b]>>
             \o [i \in 1..Len(own) |->
                    [command |-> als[own[i]].alias, bookmark_id |-> b]]
             \o CommandItems(bks, als, Tail(ids))

\* the requests that change the tables while the matcher lives
CacheWriteData ==
    {[name |-> Some(<<"a">>), url |-> Some(<<"v">>), description |-> None,
      aliases |-> Some(<< <<"b">> >>)],
     [name |-> Some(<<"B", " ">>), url |-> Some(<<"v">>), description |-> None,
      aliases |-> None]}

InitCache ==
    /\ bookmarks = <<>>
    /\ aliases = <<>>
    /\ last = NoRequest
    /\ fz = NoCall
    /\ pc = [w \in 1..NumWorkers |-> "idle"]
    /\ loaded = [w \in 1..NumWorkers |-> NoWorker]
    /\ served = 0
    /\ CacheIdle

CacheWrite ==
    \E data \in CacheWriteData :
        LET r == create_bookmark(bookmarks, aliases, data)
        IN  /\ r.status = 201
            /\ WithinBounds(r.bookmarks, r.aliases)
            /\ bookmarks' = r.bookmarks
            /\ aliases' = r.aliases
            /\ UNCHANGED <<last, fz, pc, loaded, served, cacheVars>>

\* cache_ttl seconds pass
Tick ==
    /\ clock < MaxTicks * cache_ttl
    /\ clock' = clock + cache_ttl
    /\ UNCHANGED <<bookmarks, aliases, last, fz, pc, loaded, served, matcher,
                   caller>>

\* the step of caller c to frame f leaves the rest as it is
Step(c, f) ==
    /\ caller' = [caller EXCEPT ![c] = f]
    /\ UNCHANGED <<bookmarks, aliases, last, fz, pc, loaded, clock>>

\* some other caller holds a dict that its loop has begun and not finished
RebuildInProgress(c) ==
    \E d \in Callers \ {c} :
        /\ caller[d].pc = "fill"
        /\ caller[d].commands # <<>>
        /\ caller[d].todo # <<>>

\* fuzzy_matcher.py:32: the call begins, now = time.time()
GetAllCommands(c) ==
    /\ caller[c].pc = "idle"
    /\ served + Cardinality({d \in Callers : caller[d].pc # "idle"}) < MaxCalls
    /\ Step(c, [NoFrame EXCEPT !.pc = "check_cache", !.now = clock])
    /\ UNCHANGED <<served, matcher>>

\* fuzzy_matcher.py:36: self._commands_cache is not None
CheckCache(c) ==
    /\ caller[c].pc = "check_cache"
    /\ Step(c, [caller[c] EXCEPT !.pc =
                    IF matcher._commands_cache # None
                    THEN "check_timestamp" ELSE "query"])
    /\ UNCHANGED <<served, matcher>>

\* a check that still trusts a snapshot exactly cache_ttl old
CheckTimestampInclusive(c) ==
    /\ caller[c].pc = "check_timestamp"
    /\ Step(c, [caller[c] EXCEPT !.pc =
                    IF /\ matcher._cache_timestamp # None
                       /\ caller[c].now - matcher._cache_timestamp[1] <= cache_ttl
                    THEN "return_cache" ELSE "query"])
    /\ UNCHANGED <<served, matcher>>

\* fuzzy_matcher.py:37-38: the timestamp is set and younger than cache_ttl
CheckTimestamp(c) ==
    /\ caller[c].pc = "check_timestamp"
    /\ Step(c, [caller[c] EXCEPT !.pc =
                    IF /\ matcher._cache_timestamp # None
                       /\ caller[c].now - matcher._cache_timestamp[1] < cache_ttl
                    THEN "return_cache" ELSE "query"])
    /\ UNCHANGED <<served, matcher>>

\* fuzzy_matcher.py:40: return self._commands_cache
ReturnCache(c) ==
    /\ caller[c].pc = "return_cache"
    /\ Step(c, [NoFrame EXCEPT !.got =
                    Some([snapshot |-> matcher._commands_cache[1],
                          cached |-> TRUE,
                          rebuilding |-> RebuildInProgress(c)])])
    /\ served' = served + 1
    /\ UNCHANGED matcher

\* fuzzy_matcher.py:43-44: commands = {} and the SELECT of all bookmarks,
\* their aliases joined
Query(c) ==
    /\ caller[c].pc = "query"
    /\ Step(c, [caller[c] EXCEPT
                    !.pc = "fill",
                    !.commands = <<>>,
                    !.rows = Some([bookmarks |-> bookmarks,
                                   aliases |-> aliases]),
                    !.todo = CommandItems(bookmarks, aliases,
                                          Ascending(DOMAIN bookmarks))])
    /\ UNCHANGED <<served, matcher>>

\* a loop that fills the dict the matcher already points to
AddCommandInPlace(c) ==
    /\ caller[c].pc = "fill"
    /\ caller[c].todo # <<>>
    /\ LET filled == DictSet(caller[c].commands, Head(caller[c].todo).command,
                             Head(caller[c].todo).bookmark_id)
       IN  /\ Step(c, [caller[c] EXCEPT !.commands = filled,
                                        !.todo = Tail(caller[c].todo)])
           /\ matcher' = [matcher EXCEPT !._commands_cache =
                              Some([commands |-> filled,
                                    rows |-> caller[c].rows[1]])]
    /\ UNCHANGED served

\* fuzzy_matcher.py:46-52: one assignment commands[...] = bookmark
AddCommand(c) ==
    /\ caller[c].pc = "fill"
    /\ caller[c].todo # <<>>
    /\ Step(c, [caller[c] EXCEPT
                    !.commands = DictSet(@, Head(caller[c].todo).command,
                                         Head(caller[c].todo).bookmark_id),
                    !.todo = Tail(@)])
    /\ UNCHANGED <<served, matcher>>

\* fuzzy_matcher.py:55: self._commands_cache = commands
InstallCache(c) ==
    /\ caller[c].pc = "fill"
    /\ caller[c].todo = <<>>
    /\ matcher' = [matcher EXCEPT !._commands_cache =
                       Some([commands |-> caller[c].commands,
                             rows |-> caller[c].rows[1]])]
    /\ Step(c, [caller[c] EXCEPT !.pc = "stamp"])
    /\ UNCHANGED served

\* fuzzy_matcher.py:56: self._cache_timestamp = now
InstallTimestamp(c) ==
    /\ caller[c].pc = "stamp"
    /\ matcher' = [matcher EXCEPT !._cache_timestamp = Some(caller[c].now)]
    /\ Step(c, [caller[c] EXCEPT !.pc = "return"])
    /\ UNCHANGED served

\* fuzzy_matcher.py:58: return commands
ReturnCommands(c) ==
    /\ caller[c].pc = "return"
    /\ Step(c, [NoFrame EXCEPT !.got =
                    Some([snapshot |-> [commands |-> caller[c].commands,
                                        rows |-> caller[c].rows[1]],
                          cached |-> FALSE,
                          rebuilding |-> RebuildInProgress(c)])])
    /\ served' = served + 1
    /\ UNCHANGED matcher

\* the next statement of caller c inside _get_all_commands
CallerStep(c) ==
    \/ CheckCache(c)
    \/ CheckTimestamp(c)
    \/ ReturnCache(c)
    \/ Query(c)
    \/ AddCommand(c)
    \/ InstallCache(c)
    \/ InstallTimestamp(c)
    \/ ReturnCommands(c)

NextCache ==
    \/ CacheWrite
    \/ Tick
    \/ \E c \in Callers : GetAllCommands(c)
    \/ \E c \in Callers : CallerStep(c)

SpecCache == InitCache /\ [][NextCache]_vars

\* half of cache_ttl passes: a snapshot is met younger than cache_ttl,
\* exactly cache_ttl old, and older
HalfTick ==
    /\ clock < MaxTicks * cache_ttl
    /\ clock' = clock + (cache_ttl \div 2)
    /\ UNCHANGED <<bookmarks, aliases, last, fz, pc, loaded, served, matcher,
                   caller>>

\* One matcher with one caller: call after call of _get_all_commands, a
\* statement per step, while requests change the tables and time passes.
NextTtl ==
    \/ CacheWrite
    \/ HalfTick
    \/ GetAllCommands(1)
    \/ CallerStep(1)

SpecTtl == InitCache /\ [][NextTtl]_vars

-----------------------------------------------------------------------------
(* Redirects observed some time after the bookmarks were stored: the       *)
(* timestamps of the rows tell the writes apart                             *)

BuildTick == Building /\ Tick

NextHit ==
    \/ BuildCreateBookmark
    \/ BuildAddAlias
    \/ BuildTick
    \/ ObservedRedirect

SpecHit == Init /\ [][NextHit]_vars

-----------------------------------------------------------------------------
(* Properties *)

\* the command token of the request handled last
LastCommand == parse_query(last.query).command

\* the request handled last was a process_redirect call, with a query that
\* is not blank, that returned
Redirected ==
    /\ last.op = "process_redirect"
    /\ strip(last.query) # <<>>
    /\ ~last.result.raised

\* bookmark b owns the command: it is b's name or one of b's aliases
Owns(bks, als, b, command) ==
    \/ bks[b].name = command
    \/ \E i \in DOMAIN als : als[i].bookmark_id = b /\ als[i].alias = command

\* C1: whenever the command token of a query equals the name or an alias of
\* a stored bookmark B, process_redirect returns the url
\* substitute_args(B.url, args) with no suggestions, and B.use_count after
\* the call is its value before the call plus 1.
C1_ExactMatchRedirectsAndCounts ==
    Redirected
    => \A b \in DOMAIN last.before :
           Owns(last.before, aliases, b, LastCommand)
           => /\ last.result.url =
                     Some(substitute_args(last.before[b].url,
                                          parse_query(last.query).args))
              /\ last.result.suggestions = None
              /\ b \in DOMAIN bookmarks
              /\ bookmarks[b].use_count = last.before[b].use_count + 1

\* C2: when every worker has returned, the bookmark's use_count is its
\* initial value (0) plus the number of redirects served: no increment of
\* concurrent hits is lost.
C2_NoLostIncrement ==
    (\A w \in Workers : pc[w] = "idle") => bookmarks[1].use_count = served

\* C3: a process_redirect call whose command token matches no name and no
\* alias leaves the use_count of every bookmark as it was, with or without
\* a matcher and whatever the suggestions are.
C3_MissLeavesUseCounts ==
    (/\ last.op = "process_redirect"
     /\ strip(last.query) # <<>>
     /\ find_bookmark_by_name_or_alias(last.before, aliases, LastCommand) = 0)
    => /\ DOMAIN bookmarks = DOMAIN last.before
       /\ \A b \in DOMAIN bookmarks :
              bookmarks[b].use_count = last.before[b].use_count

\* a miss has returned suggestions, one of them for a bookmark never used
C3_Witness ==
    /\ Redirected
    /\ last.result.suggestions # None
    /\ find_bookmark_by_name_or_alias(last.before, aliases, LastCommand) = 0
    /\ \E i \in 1..Len(last.result.suggestions[1]) :
           bookmarks[last.result.suggestions[1][i].bookmark_id].use_count = 0

\* C4: a miss without a matcher, or with a matcher that finds nothing, ends
\* in NoMatch: no url, no suggestions, and a 404 at the endpoint.
C4_MissWithoutSuggestionsIsNoMatch ==
    (/\ Redirected
     /\ find_bookmark_by_name_or_alias(bookmarks, aliases, LastCommand) = 0
     /\ \/ last.fuzzy = None
        \/ find_similar_commands(bookmarks, aliases, LastCommand,
               last.fuzzy[1].threshold, last.fuzzy[1].limit) = <<>>)
    => /\ last.result.url = None
       /\ last.result.suggestions = None
       /\ last.status = 404

\* C5: names and aliases form one collision-free namespace: no alias equals
\* a bookmark's name, no two bookmarks share a name, no two aliases are
\* equal.
C5_OneNamespace ==
    /\ \A i \in DOMAIN aliases, b \in DOMAIN bookmarks :
           aliases[i].alias # bookmarks[b].name
    /\ \A b, c \in DOMAIN bookmarks :
           b # c => bookmarks[b].name # bookmarks[c].name
    /\ \A i, j \in DOMAIN aliases :
           i # j => aliases[i].alias # aliases[j].alias

\* C6: find_similar_commands returns at most limit entries, and none when
\* limit is 0 or negative.
C6_AtMostLimitEntries ==
    (fz.called /\ ~fz.raised)
    => Len(fz.result) <= (IF fz.limit < 0 THEN 0 ELSE fz.limit)

\* C7: no two entries returned by find_similar_commands have the same
\* bookmark_id.
C7_NoDuplicateBookmark ==
    \A i, j \in 1..Len(fz.result) :
        i # j => fz.result[i].bookmark_id # fz.result[j].bookmark_id

\* the call returned an entry for a bookmark of which two command strings
\* reach the threshold
C7_Witness ==
    /\ fz.called /\ ~fz.raised
    /\ fz.result = find_similar_commands(bookmarks, aliases, fz.query,
                                         fz.threshold, fz.limit)
    /\ LET scored == ScoreCommands(get_all_commands(bookmarks, aliases),
                                   bookmarks, fz.query, fz.threshold)
       IN  \E i, j \in 1..Len(scored), k \in 1..Len(fz.result) :
               /\ i # j
               /\ scored[i].bookmark_id = scored[j].bookmark_id
               /\ fz.result[k].bookmark_id = scored[i].bookmark_id

\* C8: the list returned by find_similar_commands is in descending order of
\* score, and adjacent entries of equal score are in descending order of
\* use_count.
C8_SortedByScoreThenUseCount ==
    \A i \in 1..(Len(fz.result) - 1) :
        /\ ~ScoreLess(fz.result[i].score, fz.result[i + 1].score)
        /\ fz.result[i].score = fz.result[i + 1].score
           => fz.result[i].use_count >= fz.result[i + 1].use_count

\* two entries of equal score were returned, the more used one first, the
\* other one from the row read first
C8_Witness ==
    /\ fz.called /\ ~fz.raised
    /\ \E i \in 1..(Len(fz.result) - 1) :
           /\ fz.result[i].score = fz.result[i + 1].score
           /\ fz.result[i].use_count > fz.result[i + 1].use_count
           /\ fz.result[i].bookmark_id > fz.result[i + 1].bookmark_id

\* C9: when the read of the tables fails while the snapshot is built,
\* find_similar_commands returns the empty list and raises nothing.
C9_StorageFailureYieldsEmptyList ==
    (fz.called /\ fz.fail) => (~fz.raised /\ fz.result = <<>>)

\* the commands a lookup is tried with: stored forms and other spellings
LookupCommands ==
    RawCommands \cup {normalize_command(c) : c \in RawCommands}
    \cup {<<"A">>, <<"b">>, <<"B">>, <<"z">>}

C11_AliasesReferenceBookmarks ==
    \A i \in DOMAIN aliases : aliases[i].bookmark_id \in DOMAIN bookmarks

\* a bookmark that had an alias was deleted while another bookmark stayed
C11_Witness ==
    /\ last.op = "delete_bookmark"
    /\ last.status = 204
    /\ bookmarks # <<>>
    /\ \E i \in DOMAIN last.before_aliases :
           /\ last.before_aliases[i].bookmark_id = last.request[1].id
           /\ i \notin DOMAIN aliases

\* s is in canonical form: nothing to trim, nothing to lower
Canonical(s) == strip(s) = s /\ lower(s) = s

\* C12: every stored bookmark name and every stored alias is in canonical
\* form (trimmed, lower-cased), whatever strings the requests carried, and
\* the command process_redirect looks up is in canonical form: a redirect
\* hits exactly when a bookmark owns that form of the typed command.
C12_StoredAndLookedUpCanonical ==
    /\ \A b \in DOMAIN bookmarks : Canonical(bookmarks[b].name)
    /\ \A i \in DOMAIN aliases : Canonical(aliases[i].alias)
    /\ Redirected
       => /\ Canonical(LastCommand)
          /\ (bookmarks # last.before)
             <=> \E b \in DOMAIN last.before :
                     Owns(last.before, aliases, b, LastCommand)

\* a name sent with an upper-case letter or a blank is stored as b, an
\* alias sent as A is stored as a, and a query typed A hits it
C12_Witness ==
    /\ Redirected
    /\ Head(strip(last.query)) = "A"
    /\ bookmarks # last.before
    /\ \E b \in DOMAIN bookmarks, i \in DOMAIN aliases :
           /\ bookmarks[b].name = <<"b">>
           /\ aliases[i].alias = <<"a">>
           /\ aliases[i].bookmark_id = b

\* C13: a bookmark created through the API starts with use_count 0; no
\* request lowers the use_count of a bookmark that stays; and a use_count
\* changes only in a process_redirect call whose command is the name or an
\* alias of that bookmark, the bookmark the exact match finds.
C13_UseCountOnlyRaisedByHits ==
    last.op # "none"
    => \A b \in DOMAIN bookmarks :
           IF b \notin DOMAIN last.before
           THEN last.op = "create_bookmark" /\ bookmarks[b].use_count = 0
           ELSE /\ bookmarks[b].use_count >= last.before[b].use_count
                /\ bookmarks[b].use_count # last.before[b].use_count
                   => /\ last.op = "process_redirect"
                      /\ Owns(last.before, last.before_aliases, b, LastCommand)
                      /\ find_bookmark_by_name_or_alias(
                             last.before, last.before_aliases, LastCommand) = b

\* a bookmark that had been used was renamed and given another url: its
\* use_count is what it was
C13_Witness ==
    /\ last.op = "update_bookmark"
    /\ last.status = 200
    /\ LET b == last.request[1].id
       IN  /\ bookmarks[b].name # last.before[b].name
           /\ bookmarks[b].url # last.before[b].url
           /\ last.before[b].use_count > 0
           /\ bookmarks[b].use_count = last.before[b].use_count

C15_ExactlyOneOutcome ==
    (last.op = "process_redirect" /\ ~last.result.raised)
    => \/ /\ last.result.url # None
          /\ last.result.suggestions = None
       \/ /\ last.result.url = None
          /\ last.result.suggestions # None
          /\ last.result.suggestions[1] # <<>>
          /\ \A b \in DOMAIN last.before :
                 ~Owns(last.before, aliases, b, LastCommand)

\* a call with a matcher returned suggestions and no url for a command
\* that is close to a stored one, and the endpoint answered 200
C15_Witness ==
    /\ last.op = "process_redirect"
    /\ last.fuzzy # None
    /\ last.result.url = None
    /\ last.result.suggestions # None
    /\ Len(last.result.suggestions[1]) >= 1
    /\ last.status = 200

\* every character of s from position i to position j is whitespace
Blank(s, i, j) == \A k \in i..j : IsSpace(s[k])

\* no character of s from position i to position j is whitespace
Solid(s, i, j) == \A k \in i..j : ~IsSpace(s[k])

\* C16: parse_query(q) = (command, args).  For a blank q both are empty.
\* Otherwise q is blanks, a token without whitespace, and then either only
\* blanks, or at least one blank and a rest that neither starts nor ends
\* with whitespace, followed by blanks: command is the token lower-cased,
\* args is empty in the first case and the rest, character for character,
\* in the second.  The command holds no whitespace and is empty only for a
\* blank q.
C16_ParseQuery ==
    last.op = "parse_query"
    => LET q == last.request[1].query
           n == Len(q)
           command == last.result.command
           args == last.result.args
       IN  /\ Solid(command, 1, Len(command))
           /\ (command = <<>>) <=> Blank(q, 1, n)
           /\ Blank(q, 1, n) => args = <<>>
           /\ ~Blank(q, 1, n)
              => \E i \in 1..n, j \in 1..n :
                     /\ i <= j
                     /\ Blank(q, 1, i - 1)
                     /\ Solid(q, i, j)
                     /\ j < n => IsSpace(q[j + 1])
                     /\ command = lower(SubSeq(q, i, j))
                     /\ IF Blank(q, j + 1, n) THEN args = <<>>
                        ELSE \E k \in (j + 2)..n, l \in (j + 2)..n :
                                 /\ k <= l
                                 /\ Blank(q, j + 1, k - 1)
                                 /\ ~IsSpace(q[k])
                                 /\ ~IsSpace(q[l])
                                 /\ Blank(q, l + 1, n)
                                 /\ args = SubSeq(q, k, l)

\* a query with a blank in front, an upper-case token, two blanks after it
\* and an upper-case letter in the rest was parsed
C16_Witness ==
    /\ last.op = "parse_query"
    /\ last.request[1].query = <<" ", "B", " ", " ", "B", "a">>
    /\ last.result.command = <<"b">>
    /\ last.result.args = <<"B", "a">>

\* the positions of url_template where a marker %s starts
Markers(t) == {i \in 1..(Len(t) - 1) : t[i] = "%" /\ t[i + 1] = "s"}

\* C17: substitute_args(t, a) is t with every marker %s replaced by one and
\* the same string r, the empty string when a is empty and the
\* form-encoding of a otherwise: the characters of t outside the markers
\* are kept in their order, each marker is replaced by r, and nothing else
\* is added; a template without a marker comes back unchanged.
C17_SubstituteArgs ==
    last.op = "substitute_args"
    => LET t == last.request[1].url_template
           a == last.request[1].args
           r == IF a = <<>> THEN <<>> ELSE quote_plus(a)
           out == last.result
           \* where the character or marker at position i of t starts in out
           pos(i) == i + Cardinality({m \in Markers(t) : m < i}) * (Len(r) - 2)
       IN  /\ Len(out) = Len(t) + Cardinality(Markers(t)) * (Len(r) - 2)
           /\ \A i \in 1..Len(t) :
                  IF i \in Markers(t)
                  THEN SubSeq(out, pos(i), pos(i) + Len(r) - 1) = r
                  ELSE (i - 1) \notin Markers(t) => out[pos(i)] = t[i]
           /\ Markers(t) = {} => out = t

\* a template with two markers was filled with the encoding of an argument
\* that holds a blank and an ampersand
C17_Witness ==
    /\ last.op = "substitute_args"
    /\ last.request[1].url_template = <<"%", "s", "u", "%", "s">>
    /\ last.request[1].args = <<" ", "&">>
    /\ last.result = <<"+", "%", "2", "6", "u", "+", "%", "2", "6">>

\* C18: a hit that returns its Redirect has stored the use_count + 1 by
\* then: the table read after the call holds the raised value.  When the
\* exact-match lookup or the commit of the increment fails, the call returns
\* no url and no suggestions: the exception leaves process_redirect and the
\* endpoint answers 500.
C18_CommittedBeforeReturnOrRaised ==
    (last.op = "process_redirect" /\ strip(last.query) # <<>>)
    => LET b == find_bookmark_by_name_or_alias(last.before, aliases,
                                               LastCommand)
       IN  /\ (b # 0 /\ ~last.result.raised)
              => /\ last.result.url # None
                 /\ bookmarks[b].use_count = last.before[b].use_count + 1
           /\ last.fail \in {"lookup", "commit"}
              => /\ last.result.raised
                 /\ last.result.url = None
                 /\ last.result.suggestions = None
                 /\ last.status = 500

\* the commit of the increment failed on a hit: the call raised and the
\* use_count in the table is what it was
C18_Witness ==
    /\ last.op = "process_redirect"
    /\ last.fail = "commit"
    /\ last.result.raised
    /\ find_bookmark_by_name_or_alias(last.before, aliases, LastCommand) # 0
    /\ bookmarks = last.before

\* the observed request left both tables as it found them
TablesUnchanged ==
    bookmarks = last.before /\ aliases = last.before_aliases

\* C20: a write that violates uniqueness is answered 400 and changes no
\* table: create_bookmark with the name of a stored bookmark, update_bookmark
\* of a stored bookmark to the name of another one, add_alias to a stored
\* bookmark of a stored alias, and add_alias of the name of a stored
\* bookmark; names and aliases compared in their trimmed, lower-cased form.
C20_UniquenessViolationsRefused ==
    last.request # None
    => LET id == last.request[1].id
           data == last.request[1].data
           bks == last.before
           als == last.before_aliases
           Named(c) == \E b \in DOMAIN bks : bks[b].name = lower(strip(c))
       IN  /\ (/\ last.op = "create_bookmark"
               /\ data.name # None
               /\ Named(data.name[1]))
              => last.status = 400 /\ TablesUnchanged
           /\ (/\ last.op = "update_bookmark"
               /\ id \in DOMAIN bks
               /\ data.name # None
               /\ \E b \in DOMAIN bks \ {id} :
                      bks[b].name = lower(strip(data.name[1])))
              => last.status = 400 /\ TablesUnchanged
           /\ (/\ last.op = "add_alias"
               /\ id \in DOMAIN bks
               /\ data # None
               /\ \/ \E i \in DOMAIN als :
                         als[i].alias = lower(strip(data[1]))
                  \/ Named(data[1]))
              => last.status = 400 /\ TablesUnchanged

\* an alias typed with an upper-case letter and a blank, equal in its
\* stored form to the name of a bookmark and to no alias, was refused
C20_Witness ==
    /\ last.op = "add_alias"
    /\ last.status = 400
    /\ last.request[1].id \in DOMAIN last.before
    /\ last.request[1].data = Some(<<"B", " ">>)
    /\ \E b \in DOMAIN last.before : last.before[b].name = <<"b">>
    /\ \A i \in DOMAIN last.before_aliases :
           last.before_aliases[i].alias # <<"b">>
    /\ TablesUnchanged

\* the snapshot holds every name and every alias of the rows it was built
\* from, each with its bookmark
Complete(snapshot) ==
    snapshot.commands = get_all_commands(snapshot.rows.bookmarks,
                                         snapshot.rows.aliases)

\* C19: a caller of _get_all_commands is never held up by the rebuild of
\* another caller, its next statement can always run, and what a call
\* returns is a complete snapshot, the one installed before or a new one,
\* never the partly filled dict of a rebuild: the snapshot the matcher holds
\* is complete at every moment.
C19_CompleteSnapshotUnblocked ==
    /\ matcher._commands_cache # None => Complete(matcher._commands_cache[1])
    /\ \A c \in Callers :
           /\ caller[c].got # None => Complete(caller[c].got[1].snapshot)
           /\ caller[c].pc # "idle" => ENABLED CallerStep(c)

\* a caller got the snapshot installed before from the cache while the
\* other caller, rebuilding from rows that have changed since, held a
\* partly filled dict
C19_Witness ==
    \E c \in Callers, d \in Callers :
        /\ caller[c].got # None
        /\ caller[c].got[1].cached
        /\ caller[c].got[1].rebuilding
        /\ caller[d].pc = "fill"
        /\ caller[d].commands # <<>>
        /\ caller[d].todo # <<>>
        /\ caller[d].rows[1] # caller[c].got[1].snapshot.rows

\* GET /?q=command sent now, without a matcher, redirects to bookmark b: the
\* url is made from b's template and b's use_count is the one raised
RedirectsTo(command, b) ==
    LET r == process_redirect(bookmarks, aliases, command, None,
                              DEFAULT_FALLBACK_URL, "none")
    IN  /\ b \in DOMAIN bookmarks
        /\ r.result.url =
               Some(substitute_args(bookmarks[b].url,
                                    parse_query(command).args))
        /\ r.bookmarks = increment_usage(bookmarks, b)

\* the commands bookmark b owns in the tables
Commands(bks, als, b) ==
    {bks[b].name} \cup {als[i].alias : i \in {j \in DOMAIN als :
                                                als[j].bookmark_id = b}}

\* C21: exact resolution follows the stored state as writes and redirects
\* interleave: right after create_bookmark or add_alias succeeds a query for
\* the new name or alias redirects to the bookmark it was given to, after
\* update_bookmark changes the url a hit on the bookmark uses the new url,
\* and after delete_bookmark a query for the name or an alias the bookmark
\* had no longer redirects to it.
C21_WritesVisibleToRedirects ==
    /\ (last.op = "create_bookmark" /\ last.status = 201) =>
           \A command \in Commands(bookmarks, aliases, NextId(last.before)) :
               RedirectsTo(command, NextId(last.before))
    /\ (last.op = "add_alias" /\ last.request # None /\ last.status = 201) =>
           RedirectsTo(normalize_command(last.request[1].data[1]),
                       last.request[1].id)
    /\ (last.op = "update_bookmark" /\ last.request # None
            /\ last.status = 200 /\ last.request[1].data.url # None) =>
           \A command \in Commands(bookmarks, aliases, last.request[1].id) :
               find_bookmark_by_name_or_alias(bookmarks, aliases, command)
                       = last.request[1].id
                   => RedirectsTo(command, last.request[1].id)
    /\ (last.op = "delete_bookmark" /\ last.request # None
            /\ last.status = 204) =>
           \A command \in Commands(last.before, last.before_aliases,
                                   last.request[1].id) :
               find_bookmark_by_name_or_alias(bookmarks, aliases, command)
                   # last.request[1].id

\* the age, at the time the call of caller c began, of the snapshot the
\* matcher holds
Age(c) == caller[c].now - matcher._cache_timestamp[1]

\* what a call of caller c does whichever way its check went: a call that
\* returns from the cache has read no rows and returns the very snapshot
\* the matcher holds; a call that rebuilt has installed the snapshot of the
\* rows it read, with the time the call began as the timestamp
CallEffects(c) ==
    /\ caller[c].pc = "return_cache" => caller[c].rows = None
    /\ (caller[c].got # None /\ caller[c].got[1].cached) =>
           caller[c].got[1].snapshot = matcher._commands_cache[1]
    /\ caller[c].pc = "return" =>
           /\ matcher._commands_cache =
                  Some([commands |->
                            get_all_commands(caller[c].rows[1].bookmarks,
                                             caller[c].rows[1].aliases),
                        rows |-> caller[c].rows[1]])
           /\ matcher._cache_timestamp = Some(caller[c].now)

\* C22 as stated: within one FuzzyMatcher _get_all_commands rebuilds the
\* snapshot exactly when none exists or the one that exists is older than
\* cache_ttl seconds, and records the time of the rebuild as the new
\* timestamp; otherwise it returns the cached snapshot without reading
\* storage.
C22_RebuildsExactlyWhenOlderThanTtl ==
    /\ caller[1].pc = "query" =>
           \/ matcher._commands_cache = None
           \/ Age(1) > cache_ttl
    /\ caller[1].pc = "return_cache" =>
           /\ matcher._commands_cache # None
           /\ ~(Age(1) > cache_ttl)
    /\ CallEffects(1)

\* C22, amended: within one FuzzyMatcher _get_all_commands rebuilds the
\* snapshot exactly when none exists or the one that exists is at least
\* cache_ttl seconds old, and records the time of the rebuild as the new
\* timestamp; otherwise it returns the cached snapshot without reading
\* storage, so a change of the tables is not reflected while the snapshot
\* is younger than cache_ttl.
C22_RebuildsExactlyWhenTtlOld ==
    /\ caller[1].pc = "query" =>
           \/ matcher._commands_cache = None
           \/ Age(1) >= cache_ttl
    /\ caller[1].pc = "return_cache" =>
           /\ matcher._commands_cache # None
           /\ Age(1) < cache_ttl
    /\ CallEffects(1)

\* a call returned the cached snapshot, made from rows that have changed
\* since, some time after the rebuild and less than cache_ttl after it
C22_Witness ==
    /\ caller[1].got # None
    /\ caller[1].got[1].cached
    /\ caller[1].got[1].snapshot.rows
           # [bookmarks |-> bookmarks, aliases |-> aliases]
    /\ clock > matcher._cache_timestamp[1]
    /\ clock - matcher._cache_timestamp[1] < cache_ttl

\* the score of a command for a query: the similarity of the two strings in
\* lower case
Similarity(query, command) == ratio(lower(query), lower(command))

\* the score reaches the threshold
Reaches(score, threshold) == score.num >= threshold * score.den

\* C23: every entry find_similar_commands returns carries the similarity of
\* the lower-cased query and the entry's command as its score, and that
\* score is at least the threshold: no command that scores below the
\* threshold appears; the result is the one the query in lower case gets,
\* whatever the casing of the query.
C23_ScoresReachThreshold ==
    (fz.called /\ ~fz.raised) =>
        /\ \A i \in 1..Len(fz.result) :
               /\ fz.result[i].score = Similarity(fz.query, fz.result[i].name)
               /\ Reaches(fz.result[i].score, fz.threshold)
        /\ fz.result = find_similar_commands(bookmarks, aliases,
                                             lower(fz.query), fz.threshold,
                                             fz.limit)

\* a query typed in upper case got suggestions under the threshold of the
\* configuration, while a stored command that scores below it was left out
C23_Witness ==
    /\ fz.called
    /\ ~fz.raised
    /\ fz.query # lower(fz.query)
    /\ fz.threshold = FUZZY_MATCH_THRESHOLD
    /\ fz.result # <<>>
    /\ \E b \in DOMAIN bookmarks :
           /\ ~Reaches(Similarity(fz.query, bookmarks[b].name), fz.threshold)
           /\ \A i \in 1..Len(fz.result) : fz.result[i].bookmark_id # b

\* the positions, in the snapshot of the tables, of the commands of
\* bookmark b that qualify for the call made last
Qualifying(b) ==
    LET commands == get_all_commands(bookmarks, aliases)
    IN  {k \in 1..Len(commands) :
            /\ commands[k].bookmark_id = b
            /\ Reaches(Similarity(fz.query, commands[k].command),
                       fz.threshold)}

\* C24: when several commands of one bookmark qualify, its name and one or
\* more of its aliases, the one entry kept for the bookmark is the first of
\* them in the sorted order: none of the bookmark's qualifying commands
\* scores higher, of those that score the same it is the first of the
\* snapshot, and the name field of the entry is that command.
C24_BestCommandOfBookmarkKept ==
    (fz.called /\ ~fz.raised) =>
        \A i \in 1..Len(fz.result) :
            LET commands == get_all_commands(bookmarks, aliases)
                e == fz.result[i]
                own == Qualifying(e.bookmark_id)
            IN  \E k \in own :
                    /\ commands[k].command = e.name
                    /\ e.score = Similarity(fz.query, e.name)
                    /\ \A j \in own :
                           /\ ~ScoreLess(e.score,
                                  Similarity(fz.query, commands[j].command))
                           /\ Similarity(fz.query, commands[j].command)
                                  = e.score => k <= j

\* the name and an alias of a bookmark both qualified, the alias with the
\* higher score, and the entry kept for the bookmark carries the alias
C24_Witness ==
    /\ fz.called
    /\ ~fz.raised
    /\ \E i \in 1..Len(fz.result) :
           LET e == fz.result[i]
               b == e.bookmark_id
           IN  /\ Cardinality(Qualifying(b)) > 1
               /\ e.name # bookmarks[b].name
               /\ Reaches(Similarity(fz.query, bookmarks[b].name),
                          fz.threshold)
               /\ ScoreLess(Similarity(fz.query, bookmarks[b].name), e.score)

\* C25: at the endpoint index every result of process_redirect is handled
\* by one of the first two branches, a result with a url by a 302 to
\* exactly that url and a result with suggestions by the suggestions page:
\* the last branch, the one that "shouldn't happen", is never taken,
\* whatever the stored urls, the fallback url and the query.
C25_LastBranchNeverTaken ==
    (last.op = "process_redirect" /\ last.fuzzy # None
         /\ ~last.result.raised) =>
        LET response == index_response(last.result, last.query)
        IN  /\ response.branch # "shouldn't happen"
            /\ response.status = last.status
            /\ last.result.url # None =>
                   /\ response.branch = "url"
                   /\ response.location = last.result.url
            /\ last.result.suggestions # None =>
                   response.branch = "suggestions"

\* sub in s, as in Python: sub occurs in s as a contiguous run
Contains(s, sub) ==
    \E i \in 1..(Len(s) - Len(sub) + 1) :
        SubSeq(s, i, i + Len(sub) - 1) = sub

\* C26 as stated: for every template and every argument string the result
\* of substitute_args contains no occurrence of the marker %s.
C26_NoMarkerInResult ==
    last.op = "substitute_args"
    => ~Contains(last.result, <<"%", "s">>)

\* C26, amended: for every template in which no % stands directly before a
\* marker (the template does not contain %%s) and every argument string,
\* the result of substitute_args contains no occurrence of the marker %s.
C26_NoMarkerInResultUnlessPercentBeforeMarker ==
    (/\ last.op = "substitute_args"
     /\ ~Contains(last.request[1].url_template, <<"%", "%", "s">>))
    => ~Contains(last.result, <<"%", "s">>)

\* a template with a % outside its marker, and an s after it, was filled
\* with the encoding of an argument that begins with s
C26_Witness ==
    /\ last.op = "substitute_args"
    /\ last.request[1].url_template = <<"%", "u", "%", "s", "s">>
    /\ last.request[1].args = <<"s", "&">>
    /\ last.result = <<"%", "u", "s", "%", "2", "6", "s">>

\* C27: in every state of the tables reached through the requests to /api,
\* a snapshot rebuilt now agrees with exact resolution: its keys are the
\* names of the bookmarks and the aliases, and every key is mapped to the
\* bookmark find_bookmark_by_name_or_alias returns for it.
C27_SnapshotAgreesWithExactResolution ==
    LET commands == get_all_commands(bookmarks, aliases)
    IN  /\ {commands[k].command : k \in 1..Len(commands)}
               = {bookmarks[b].name : b \in DOMAIN bookmarks}
                     \cup {aliases[i].alias : i \in DOMAIN aliases}
        /\ \A k \in 1..Len(commands) :
               commands[k].bookmark_id
                   = find_bookmark_by_name_or_alias(bookmarks, aliases,
                                                    commands[k].command)

\* C28: create_bookmark is all or nothing.  Answered 201, it has stored the
\* bookmark and, with it, one alias row for every entry of the aliases list
\* that is not empty once normalized, each owned by the new bookmark, and
\* has left the rows that were there as they were; answered anything else,
\* after a failed validation or a uniqueness error of the storage for one
\* of the aliases, it has stored neither the bookmark nor any alias.
C28_CreateBookmarkAllOrNothing ==
    (last.op = "create_bookmark" /\ last.request # None) =>
        LET data == last.request[1].data
            id == NextId(last.before)
            listed == IF data.aliases = None THEN {}
                      ELSE {normalize_command(data.aliases[1][k]) :
                                k \in 1..Len(data.aliases[1])} \ {<<>>}
            added == DOMAIN aliases \ DOMAIN last.before_aliases
        IN  IF last.status = 201
            THEN /\ DOMAIN bookmarks = DOMAIN last.before \cup {id}
                 /\ id \notin DOMAIN last.before
                 /\ \A b \in DOMAIN last.before :
                        bookmarks[b] = last.before[b]
                 /\ bookmarks[id].name = normalize_command(data.name[1])
                 /\ bookmarks[id].url = data.url[1]
                 /\ DOMAIN last.before_aliases \subseteq DOMAIN aliases
                 /\ \A i \in DOMAIN last.before_aliases :
                        aliases[i] = last.before_aliases[i]
                 /\ {aliases[i].alias : i \in added} = listed
                 /\ Cardinality(added) = Cardinality(listed)
                 /\ \A i \in added : aliases[i].bookmark_id = id
            ELSE /\ last.status \in {400, 500}
                 /\ TablesUnchanged

\* a request with a name that is free and an alias that is taken was
\* refused by the storage, and the bookmark was not stored either
C28_Witness ==
    /\ last.op = "create_bookmark"
    /\ last.request # None
    /\ last.status = 500
    /\ last.request[1].data.aliases # None
    /\ \A b \in DOMAIN last.before :
           last.before[b].name
               # normalize_command(last.request[1].data.name[1])
    /\ last.before_aliases # <<>>
    /\ TablesUnchanged

\* the bookmark the request handled last, a redirect, has hit
HitBookmark ==
    find_bookmark_by_name_or_alias(last.before, last.before_aliases,
                                   LastCommand)

\* C29 as stated: a hit of process_redirect on bookmark B changes nothing in
\* storage except B.use_count: every other column of B, every other
\* bookmark, the set of bookmarks and the aliases are as they were.
C29_HitChangesOnlyUseCount ==
    (Redirected /\ HitBookmark # 0) =>
        /\ bookmarks = [last.before EXCEPT ![HitBookmark].use_count = @ + 1]
        /\ aliases = last.before_aliases

\* C29, amended: a hit of process_redirect on bookmark B changes nothing in
\* storage except B.use_count and B.updated_at: the name, the url, the
\* description and the aliases of every bookmark, the use_count and the
\* updated_at of every other bookmark and the set of bookmarks are as they
\* were; the call creates and deletes no bookmark and no alias.
C29_HitChangesOnlyUseCountAndUpdatedAt ==
    (Redirected /\ HitBookmark # 0) =>
        /\ \E t \in 0..clock :
               bookmarks = [last.before EXCEPT
                                ![HitBookmark].use_count = @ + 1,
                                ![HitBookmark].updated_at = t]
        /\ aliases = last.before_aliases

\* a hit through an alias, some time after the bookmarks were stored, with
\* another bookmark in the table: the use_count of the bookmark hit is
\* raised and its updated_at is the time of the hit
C29_Witness ==
    /\ Redirected
    /\ HitBookmark # 0
    /\ Cardinality(DOMAIN bookmarks) > 1
    /\ last.before[HitBookmark].name # LastCommand
    /\ bookmarks[HitBookmark].use_count
           = last.before[HitBookmark].use_count + 1
    /\ bookmarks[HitBookmark].updated_at = clock
    /\ last.before[HitBookmark].updated_at < clock

\* C30: after any sequence of create_bookmark, update_bookmark and
\* add_alias requests, whatever strings they carry, names and aliases of
\* blanks only included, no stored name and no stored alias is the empty
\* string.
C30_NoEmptyCommandStored ==
    /\ \A b \in DOMAIN bookmarks : bookmarks[b].name # <<>>
    /\ \A i \in DOMAIN aliases : aliases[i].alias # <<>>

====
